---- MODULE Spec2Model ----
(***************************************************************************)
(* A model of advanced-vector/vector.h: RawMemory<T> (an owned block of    *)
(* raw storage) and Vector<T> (the growable array built on it).            *)
(*                                                                         *)
(* The heap is a finite set of blocks; a block is a sequence of slots and  *)
(* a slot is either Raw (no object) or holds a live element value.  An     *)
(* element that has been moved from holds the value Moved.  Every element  *)
(* operation that may throw (construction, copy, move of a type whose move *)
(* may throw, assignment) is given a fault <<site, k>>: the k-th element   *)
(* operation of the site-th throwing statement of the handler throws.      *)
(***************************************************************************)
EXTENDS Integers, Sequences, FiniteSets, TLC

\* ---------------------------------------------------------------- bounds
\* One array alone (SpecOne): its length and capacity.
MaxLen == 3
MaxCap == 4
\* Two arrays (Spec): the length and capacity of each.
MaxLen2 == 2
MaxCap2 == 2
MaxVal == 2
MaxBlocks == 3
\* The calls that may leak (an element or a block) before the model stops.
MaxLeaks == 1
\* The allocations SpecAppend counts before it stops.
MaxAllocs == 4
\* One array that grows (SpecGrow): its length and capacity.
MaxGrowLen == 4
MaxGrowCap == 6

Vecs == {1, 2}
Blocks == 1..MaxBlocks
Values == 1..MaxVal

\* A slot of raw memory that holds no object.
Raw == -1
\* The value an element holds after it has been moved from.
Moved == 0
\* The value of a value-initialised element, T().
DefaultValue == 1
\* nullptr
Null == 0

VARIABLES
    T,      \* the element type's traits: [nothrow_move, copyable]
    vec,    \* vec[v]: [alive, buf, cap, size]: data_.buffer_, data_.capacity_, size_
    mem,    \* [blk: block -> [used, slots], bad, leaked, lost, leaks]
    last,   \* the call that has just returned or thrown: [op, args, threw, realloc, ret]
    log     \* SpecAppend's record of the calls made on its array

vars == <<T, vec, mem, last, log>>

Min(a, b) == IF a <= b THEN a ELSE b
Max(a, b) == IF a >= b THEN a ELSE b

\* ---------------------------------------------------------------- faults
NoFault == <<0, 0>>
\* The faults of a call with at most `sites` throwing statements of at most n
\* element operations each; none when the element operations never throw.
Faults(throwing, sites, n) ==
    IF throwing THEN {NoFault} \cup {<<s, k>> : s \in 1..sites, k \in 1..Max(n, 1)}
    ELSE {NoFault}
At(f, site, n) == f[1] = site /\ f[2] >= 1 /\ f[2] <= n

\* ---------------------------------------------------------------- memory
IsLive(x) == x # Raw

LiveIn(slots) == Cardinality({i \in 1..Len(slots) : IsLive(slots[i])})

FreeBlocks(m) == {b \in Blocks : ~m.blk[b].used}

\* RawMemory::Allocate: the address operator new returns, nullptr for n = 0.
Allocate(m, n) ==
    IF n = 0 THEN Null ELSE CHOOSE b \in FreeBlocks(m) : \A c \in FreeBlocks(m) : b <= c

\* The heap after Allocate(n) returned b.
Allocated(m, b, n) ==
    IF b = Null THEN m
    ELSE [m EXCEPT !.blk[b] = [used |-> TRUE, slots |-> [i \in 1..n |-> Raw]]]

\* RawMemory::Deallocate: operator delete(buf).  Elements still live in the
\* block are never destroyed: they are counted as leaked.
Deallocate(m, b) ==
    IF b = Null THEN m
    ELSE IF ~m.blk[b].used THEN [m EXCEPT !.bad = TRUE]
    ELSE [m EXCEPT !.blk[b] = [used |-> FALSE, slots |-> <<>>],
                   !.leaked = @ + LiveIn(m.blk[b].slots)]

InBlock(m, b, i) == b # Null /\ m.blk[b].used /\ i >= 0 /\ i < Len(m.blk[b].slots)

Get(m, b, i) == IF InBlock(m, b, i) THEN m.blk[b].slots[i + 1] ELSE Raw

\* new (p) T(x): placement construction in a slot.  Over a live element it
\* ends that element's lifetime without destroying it: the element is leaked.
Construct(m, b, i, x) ==
    IF InBlock(m, b, i)
    THEN [m EXCEPT !.blk[b].slots[i + 1] = x,
                   !.leaked = IF IsLive(Get(m, b, i)) THEN @ + 1 ELSE @]
    ELSE [m EXCEPT !.bad = TRUE]

\* std::destroy_at(p)
DestroyAt(m, b, i) ==
    IF InBlock(m, b, i) /\ IsLive(Get(m, b, i))
    THEN [m EXCEPT !.blk[b].slots[i + 1] = Raw]
    ELSE [m EXCEPT !.bad = TRUE]

\* *d = x on a live element (copy assignment of an element).
Assign(m, b, i, x) ==
    IF InBlock(m, b, i) /\ IsLive(Get(m, b, i)) /\ IsLive(x)
    THEN [m EXCEPT !.blk[b].slots[i + 1] = x]
    ELSE [m EXCEPT !.bad = TRUE]

\* std::destroy_n(first, n)
RECURSIVE DestroyN(_, _, _, _)
DestroyN(m, b, i, n) ==
    IF n <= 0 THEN m ELSE DestroyN(DestroyAt(m, b, i), b, i + 1, n - 1)

\* std::uninitialized_copy_n(first, n, d_first), all n copies succeeding.
RECURSIVE UninitCopyN(_, _, _, _, _, _)
UninitCopyN(m, sb, si, n, db, di) ==
    IF n <= 0 THEN m
    ELSE UninitCopyN(Construct(m, db, di, Get(m, sb, si)), sb, si + 1, n - 1, db, di + 1)

\* std::uninitialized_value_construct_n(first, n), all n succeeding.
RECURSIVE UninitValueConstructN(_, _, _, _)
UninitValueConstructN(m, b, i, n) ==
    IF n <= 0 THEN m
    ELSE UninitValueConstructN(Construct(m, b, i, DefaultValue), b, i + 1, n - 1)

\* T(std::move(*s)) into a raw slot: the source is left moved-from.
MoveConstruct(m, sb, si, db, di) ==
    LET x == Get(m, sb, si)
        m1 == Construct(m, db, di, x)
    IN  IF IsLive(x) THEN [m1 EXCEPT !.blk[sb].slots[si + 1] = Moved]
        ELSE [m1 EXCEPT !.bad = TRUE]

\* *d = std::move(*s) between two live elements.
MoveAssign(m, sb, si, db, di) ==
    LET x == Get(m, sb, si)
        m1 == Assign(m, db, di, x)
    IN  IF IsLive(x) /\ <<sb, si>> # <<db, di>>
        THEN [m1 EXCEPT !.blk[sb].slots[si + 1] = Moved]
        ELSE m1

\* std::uninitialized_move_n(first, n, d_first), all n moves succeeding.
RECURSIVE UninitMoveN(_, _, _, _, _, _)
UninitMoveN(m, sb, si, n, db, di) ==
    IF n <= 0 THEN m
    ELSE UninitMoveN(MoveConstruct(m, sb, si, db, di), sb, si + 1, n - 1, db, di + 1)

\* std::uninitialized_move_n whose k-th move construction throws: the k-1
\* elements constructed so far are destroyed, their sources stay moved-from.
UninitMoveNThrow(m, sb, si, k, db, di) ==
    DestroyN(UninitMoveN(m, sb, si, k - 1, db, di), db, di, k - 1)

\* Mutant: the range is moved from its second element on.
MoveRangeSkipsFirst(m, b, first, n, dfirst) ==
    LET F[k \in 0..Max(n, 1)] ==
            IF k <= 1 THEN m
            ELSE MoveAssign(F[k - 1], b, first + k - 1, b, dfirst + k - 1)
    IN  F[Max(n, 0)]

\* std::move(first, last, d_first): the first n move assignments, front to back.
RECURSIVE MoveRange(_, _, _, _, _)
MoveRange(m, b, first, n, dfirst) ==
    IF n <= 0 THEN m
    ELSE MoveRange(MoveAssign(m, b, first, b, dfirst), b, first + 1, n - 1, dfirst + 1)

\* Mutant: the range is moved front to back, over the elements still to move.
MoveBackwardFrontFirst(m, b, lastx, n, dlast) ==
    MoveRange(m, b, lastx - n, n, dlast - n)

\* std::move_backward(first, last, d_last): the first n move assignments, back
\* to front.
RECURSIVE MoveBackward(_, _, _, _, _)
MoveBackward(m, b, lastx, n, dlast) ==
    IF n <= 0 THEN m
    ELSE MoveBackward(MoveAssign(m, b, lastx - 1, b, dlast - 1), b, lastx - 1, n - 1, dlast - 1)

\* ---------------------------------------------------------------- type traits
\* Mutant: every type is relocated by move.
MovePolicyAlwaysMove(t) == TRUE

\* Mutant: the policy forgets the types that cannot be copied.
MovePolicyNothrowOnly(t) == t.nothrow_move

\* if constexpr (is_nothrow_move_constructible_v<T> || !is_copy_constructible_v<T>)
MovePolicy(t) == t.nothrow_move \/ ~t.copyable

\* Whether relocating an element into new storage may throw.
RelocationThrows(t) == IF MovePolicy(t) THEN ~t.nothrow_move ELSE TRUE

\* Mutant: the last element is not relocated.
RelocateButLast(t, m, sb, si, n, db, di) ==
    IF MovePolicy(t) THEN UninitMoveN(m, sb, si, n - 1, db, di)
    ELSE UninitCopyN(m, sb, si, n - 1, db, di)

\* Relocation of n elements into new storage, all succeeding.
Relocate(t, m, sb, si, n, db, di) ==
    IF MovePolicy(t) THEN UninitMoveN(m, sb, si, n, db, di)
    ELSE UninitCopyN(m, sb, si, n, db, di)

\* Relocation whose k-th construction throws: what was constructed is destroyed
\* (a copy leaves the sources alone, a move leaves k-1 of them moved-from).
RelocateThrow(t, m, sb, si, k, db, di) ==
    IF MovePolicy(t) THEN UninitMoveNThrow(m, sb, si, k, db, di)
    ELSE m

\* ---------------------------------------------------------------- results
NoRet == <<>>

\* What a call leaves: the arrays, the heap, whether it threw, whether it took
\* the reallocating path, and the iterator or reference it returned.
Res(vc, m, threw, realloc, ret) ==
    [vec |-> vc, mem |-> m, threw |-> threw, realloc |-> realloc, ret |-> ret]

\* No array: not constructed yet, or destroyed.
EmptyVec == [alive |-> FALSE, buf |-> Null, cap |-> 0, size |-> 0]

\* Vector() = default: RawMemory() = default and size_ = 0.
FreshVec == [alive |-> TRUE, buf |-> Null, cap |-> 0, size |-> 0]

\* RawMemory::Swap on the storage of arrays a and b.
RawSwap(vc, a, b) ==
    [vc EXCEPT ![a].buf = vc[b].buf, ![a].cap = vc[b].cap,
               ![b].buf = vc[a].buf, ![b].cap = vc[a].cap]

\* Mutant: the source keeps its pointer and capacity.
RawMoveAssignCopiesPointer(vc, a, b) ==
    [vc EXCEPT ![a].buf = vc[b].buf, ![a].cap = vc[b].cap]

\* RawMemory::operator=(RawMemory&&): two std::exchange in sequence.  The block
\* the target held is not deallocated.
RawMoveAssign(vc, a, b) ==
    LET buf == vc[b].buf
        vc1 == [vc EXCEPT ![b].buf = Null]
        vc2 == [vc1 EXCEPT ![a].buf = buf]
        cap == vc2[b].cap
        vc3 == [vc2 EXCEPT ![b].cap = 0]
    IN  [vc3 EXCEPT ![a].cap = cap]

\* Mutant: the capacity grows to the next power of two above the length.
GrowCapacityNextPowerOfTwo(size) ==
    CHOOSE c \in {2 ^ i : i \in 0..(size + 1)} :
        c > size /\ \A d \in {2 ^ i : i \in 0..(size + 1)} : d > size => c <= d

\* The capacity a growing append or insertion allocates.
GrowCapacity(size) == IF size = 0 THEN 1 ELSE 2 * size

\* ---------------------------------------------------------------- Reserve
\* Mutant: the early return is taken one capacity too soon.
DoReserveOneShort(t, vc, m, v, n, f) ==
    LET V == vc[v] IN
    IF n <= V.cap + 1 THEN Res(vc, m, FALSE, FALSE, NoRet)
    ELSE
        LET nb == Allocate(m, n)
            m1 == Allocated(m, nb, n)
        IN  IF RelocationThrows(t) /\ At(f, 1, V.size)
            THEN Res(vc, Deallocate(RelocateThrow(t, m1, V.buf, 0, f[2], nb, 0), nb),
                     TRUE, TRUE, NoRet)
            ELSE
                LET m2 == Relocate(t, m1, V.buf, 0, V.size, nb, 0)
                    m3 == DestroyN(m2, V.buf, 0, V.size)
                    vc1 == [vc EXCEPT ![v].buf = nb, ![v].cap = n]
                IN  Res(vc1, Deallocate(m3, V.buf), FALSE, TRUE, NoRet)

DoReserve(t, vc, m, v, n, f) ==
    LET V == vc[v] IN
    IF n <= V.cap THEN Res(vc, m, FALSE, FALSE, NoRet)
    ELSE
        LET nb == Allocate(m, n)
            m1 == Allocated(m, nb, n)
        IN  IF RelocationThrows(t) /\ At(f, 1, V.size)
            THEN Res(vc, Deallocate(RelocateThrow(t, m1, V.buf, 0, f[2], nb, 0), nb),
                     TRUE, TRUE, NoRet)
            ELSE
                LET m2 == Relocate(t, m1, V.buf, 0, V.size, nb, 0)
                    m3 == DestroyN(m2, V.buf, 0, V.size)
                    vc1 == [vc EXCEPT ![v].buf = nb, ![v].cap = n]
                IN  Res(vc1, Deallocate(m3, V.buf), FALSE, TRUE, NoRet)

\* ---------------------------------------------------------------- PushBack, EmplaceBack
\* The body shared by PushBack(const T&), PushBack(T&&) and EmplaceBack: x is
\* the value of the new element, newThrows whether constructing it may throw.
DoAppend(t, vc, m, v, x, newThrows, f) ==
    LET V == vc[v] IN
    IF V.size < V.cap THEN
        IF newThrows /\ At(f, 1, 1) THEN Res(vc, m, TRUE, FALSE, NoRet)
        ELSE Res([vc EXCEPT ![v].size = @ + 1], Construct(m, V.buf, V.size, x),
                 FALSE, FALSE, NoRet)
    ELSE
        LET n == GrowCapacity(V.size)
            nb == Allocate(m, n)
            m1 == Allocated(m, nb, n)
        IN  IF newThrows /\ At(f, 1, 1)
            THEN Res(vc, Deallocate(m1, nb), TRUE, TRUE, NoRet)
            ELSE
                LET m2 == Construct(m1, nb, V.size, x) IN
                IF RelocationThrows(t) /\ At(f, 2, V.size)
                THEN Res(vc, Deallocate(RelocateThrow(t, m2, V.buf, 0, f[2], nb, 0), nb),
                         TRUE, TRUE, NoRet)
                ELSE
                    LET m3 == Relocate(t, m2, V.buf, 0, V.size, nb, 0)
                        m4 == DestroyN(m3, V.buf, 0, V.size)
                        vc1 == [vc EXCEPT ![v].buf = nb, ![v].cap = n, ![v].size = @ + 1]
                    IN  Res(vc1, Deallocate(m4, V.buf), FALSE, TRUE, NoRet)

\* PushBack(const T& value): the new element is copy-constructed.
DoPushBackCopy(t, vc, m, v, x, f) == DoAppend(t, vc, m, v, x, TRUE, f)

\* PushBack(T&& value): the new element is move-constructed.
DoPushBackMove(t, vc, m, v, x, f) == DoAppend(t, vc, m, v, x, ~t.nothrow_move, f)

\* EmplaceBack(args...): returns *(data_ + size_ - 1).
DoEmplaceBack(t, vc, m, v, x, f) ==
    LET r == DoAppend(t, vc, m, v, x, TRUE, f) IN
    IF r.threw THEN r ELSE [r EXCEPT !.ret = <<r.vec[v].buf, r.vec[v].size - 1>>]

\* ---------------------------------------------------------------- PopBack
DoPopBack(vc, m, v) ==
    LET size == vc[v].size - 1 IN
    Res([vc EXCEPT ![v].size = size], DestroyAt(m, vc[v].buf, size), FALSE, FALSE, NoRet)

\* ---------------------------------------------------------------- Emplace, Insert
\* Emplace(pos, args...) with size_ < Capacity(), pos != cend().
DoEmplaceInPlace(t, vc, m, v, pos, x, f) ==
    LET V == vc[v]
        n == V.size - 1 - pos
    IN  IF At(f, 1, 1) THEN Res(vc, m, TRUE, FALSE, NoRet)
        ELSE IF ~t.nothrow_move /\ At(f, 2, 1) THEN Res(vc, m, TRUE, FALSE, NoRet)
        ELSE
            LET m1 == MoveConstruct(m, V.buf, V.size - 1, V.buf, V.size) IN
            IF At(f, 3, n)
            THEN Res(vc, MoveBackward(m1, V.buf, V.size - 1, f[2] - 1, V.size),
                     TRUE, FALSE, NoRet)
            ELSE
                LET m2 == MoveBackward(m1, V.buf, V.size - 1, n, V.size) IN
                IF At(f, 4, 1) THEN Res(vc, m2, TRUE, FALSE, NoRet)
                ELSE Res([vc EXCEPT ![v].size = @ + 1], Assign(m2, V.buf, pos, x),
                         FALSE, FALSE, <<V.buf, pos>>)

\* Emplace(pos, args...) with size_ == Capacity(), pos != cend().
DoEmplaceRealloc(t, vc, m, v, pos, x, f) ==
    LET V == vc[v]
        n == GrowCapacity(V.size)
        nb == Allocate(m, n)
        m1 == Allocated(m, nb, n)
    IN  IF At(f, 1, 1) THEN Res(vc, Deallocate(m1, nb), TRUE, TRUE, NoRet)
        ELSE
            LET m2 == Construct(m1, nb, pos, x) IN
            IF RelocationThrows(t) /\ At(f, 2, pos)
            THEN Res(vc, Deallocate(RelocateThrow(t, m2, V.buf, 0, f[2], nb, 0), nb),
                     TRUE, TRUE, NoRet)
            ELSE
                LET m3 == Relocate(t, m2, V.buf, 0, pos, nb, 0) IN
                IF RelocationThrows(t) /\ At(f, 3, V.size - pos)
                THEN
                    LET m4 == RelocateThrow(t, m3, V.buf, pos, f[2], nb, pos + 1)
                        m5 == DestroyN(m4, nb, 0, pos)
                    IN  Res(vc, Deallocate(m5, nb), TRUE, TRUE, NoRet)
                ELSE
                    LET m4 == Relocate(t, m3, V.buf, pos, V.size - pos, nb, pos + 1)
                        m5 == DestroyN(m4, V.buf, 0, V.size)
                        vc1 == [vc EXCEPT ![v].buf = nb, ![v].cap = n, ![v].size = @ + 1]
                    IN  Res(vc1, Deallocate(m5, V.buf), FALSE, TRUE, <<nb, pos>>)

DoEmplace(t, vc, m, v, pos, x, f) ==
    IF pos = vc[v].size THEN
        LET r == DoEmplaceBack(t, vc, m, v, x, f) IN
        IF r.threw THEN r ELSE [r EXCEPT !.ret = <<r.vec[v].buf, pos>>]
    ELSE IF vc[v].size < vc[v].cap THEN DoEmplaceInPlace(t, vc, m, v, pos, x, f)
    ELSE DoEmplaceRealloc(t, vc, m, v, pos, x, f)

\* Insert(pos, const T& value): return Emplace(pos, value).
DoInsert(t, vc, m, v, pos, x, f) == DoEmplace(t, vc, m, v, pos, x, f)

\* Mutant: the in-capacity path assigns from the reference after the shift
\* (*(data_ + pos_) = value with no local copy made first).
DoInsertRefReadsAfterShift(t, vc, m, v, pos, i, f) ==
    LET V == vc[v]
        r == DoInsert(t, vc, m, v, pos, Get(m, V.buf, i), f)
        shifted == MoveBackward(MoveConstruct(m, V.buf, V.size - 1, V.buf, V.size),
                                V.buf, V.size - 1, V.size - 1 - pos, V.size)
    IN  IF pos < V.size /\ V.size < V.cap /\ ~r.threw
        THEN [r EXCEPT !.mem = Assign(shifted, V.buf, pos, Get(shifted, V.buf, i))]
        ELSE r

\* v.Insert(pos, v[i]): the argument refers to element i of the same array.
\* Every path constructs from the argument before it touches an element of
\* the array: EmplaceBack at the end (lines 243, 247), the local T value(...)
\* on the in-capacity path (line 294), the new element in new_data on the
\* reallocating path (line 301).
DoInsertRef(t, vc, m, v, pos, i, f) ==
    DoInsert(t, vc, m, v, pos, Get(m, vc[v].buf, i), f)

\* v.PushBack(v[i]): the new element is copy-constructed from element i before
\* the old block is relocated from and destroyed (lines 195, 199).
DoPushBackRef(t, vc, m, v, i, f) ==
    DoPushBackCopy(t, vc, m, v, Get(m, vc[v].buf, i), f)

\* ---------------------------------------------------------------- Erase
DoErase(vc, m, v, pos, f) ==
    LET V == vc[v]
        n == V.size - 1 - pos
    IN  IF At(f, 1, n)
        THEN Res(vc, MoveRange(m, V.buf, pos + 1, f[2] - 1, pos), TRUE, FALSE, NoRet)
        ELSE
            LET m1 == MoveRange(m, V.buf, pos + 1, n, pos)
                m2 == DestroyAt(m1, V.buf, V.size - 1)
            IN  Res([vc EXCEPT ![v].size = @ - 1], m2, FALSE, FALSE, <<V.buf, pos>>)

\* ---------------------------------------------------------------- Resize
\* Mutant: a shrinking Resize lowers size_ without destroying the elements.
DoResizeShrinkKeepsElements(t, vc, m, v, n, f) ==
    LET V == vc[v] IN
    IF n < V.size
    THEN Res([vc EXCEPT ![v].size = n], m, FALSE, FALSE, NoRet)
    ELSE
        LET r == DoReserve(t, vc, m, v, n, f) IN
        IF r.threw THEN r
        ELSE IF At(f, 2, n - V.size) THEN [r EXCEPT !.threw = TRUE]
        ELSE [r EXCEPT !.vec[v].size = n,
                       !.mem = UninitValueConstructN(r.mem, r.vec[v].buf, V.size, n - V.size)]

DoResize(t, vc, m, v, n, f) ==
    LET V == vc[v] IN
    IF n < V.size
    THEN Res([vc EXCEPT ![v].size = n], DestroyN(m, V.buf, n, V.size - n),
             FALSE, FALSE, NoRet)
    ELSE
        LET r == DoReserve(t, vc, m, v, n, f) IN
        IF r.threw THEN r
        ELSE IF At(f, 2, n - V.size) THEN [r EXCEPT !.threw = TRUE]
        ELSE [r EXCEPT !.vec[v].size = n,
                       !.mem = UninitValueConstructN(r.mem, r.vec[v].buf, V.size, n - V.size)]

\* ---------------------------------------------------------------- construction, destruction
\* Vector(): an empty array with no storage.
DoDefaultConstruct(vc, m, d) ==
    Res([vc EXCEPT ![d] = FreshVec], m, FALSE, FALSE, NoRet)

\* Mutant: the elements constructed before the throw are not destroyed.
DoSizeConstructNoRollback(vc, m, d, n, f) ==
    LET nb == Allocate(m, n)
        m1 == Allocated(m, nb, n)
    IN  IF At(f, 1, n)
        THEN Res(vc, Deallocate(UninitValueConstructN(m1, nb, 0, f[2] - 1), nb),
                 TRUE, n > 0, NoRet)
        ELSE Res([vc EXCEPT ![d] = [alive |-> TRUE, buf |-> nb, cap |-> n, size |-> n]],
                 UninitValueConstructN(m1, nb, 0, n), FALSE, n > 0, NoRet)

\* Vector(size_t size).  When a construction throws, data_ is destroyed and no
\* array exists.
DoSizeConstruct(vc, m, d, n, f) ==
    LET nb == Allocate(m, n)
        m1 == Allocated(m, nb, n)
    IN  IF At(f, 1, n) THEN Res(vc, Deallocate(m1, nb), TRUE, n > 0, NoRet)
        ELSE Res([vc EXCEPT ![d] = [alive |-> TRUE, buf |-> nb, cap |-> n, size |-> n]],
                 UninitValueConstructN(m1, nb, 0, n), FALSE, n > 0, NoRet)

\* Mutant: a throwing copy leaves the elements copied so far in the new block.
DoCopyConstructNoRollback(vc, m, d, s, f) ==
    LET n == vc[s].size
        nb == Allocate(m, n)
        m1 == Allocated(m, nb, n)
    IN  IF At(f, 1, n)
        THEN Res(vc, UninitCopyN(m1, vc[s].buf, 0, f[2] - 1, nb, 0), TRUE, n > 0, NoRet)
        ELSE Res([vc EXCEPT ![d] = [alive |-> TRUE, buf |-> nb, cap |-> n, size |-> n]],
                 UninitCopyN(m1, vc[s].buf, 0, n, nb, 0), FALSE, n > 0, NoRet)

\* Vector(const Vector& other)
DoCopyConstruct(vc, m, d, s, f) ==
    LET n == vc[s].size
        nb == Allocate(m, n)
        m1 == Allocated(m, nb, n)
    IN  IF At(f, 1, n) THEN Res(vc, Deallocate(m1, nb), TRUE, n > 0, NoRet)
        ELSE Res([vc EXCEPT ![d] = [alive |-> TRUE, buf |-> nb, cap |-> n, size |-> n]],
                 UninitCopyN(m1, vc[s].buf, 0, n, nb, 0), FALSE, n > 0, NoRet)

\* Vector(Vector&& other): RawMemory(RawMemory&&) and std::exchange(other.size_, 0).
DoMoveConstruct(vc, m, d, s) ==
    LET vc1 == [vc EXCEPT ![d] = [alive |-> TRUE, buf |-> vc[s].buf, cap |-> vc[s].cap,
                                  size |-> vc[s].size]]
    IN  Res([vc1 EXCEPT ![s].buf = Null, ![s].cap = 0, ![s].size = 0],
            m, FALSE, FALSE, NoRet)

\* ~Vector() followed by ~RawMemory().
DoDestroy(vc, m, v) ==
    Res([vc EXCEPT ![v] = EmptyVec],
        Deallocate(DestroyN(m, vc[v].buf, 0, vc[v].size), vc[v].buf),
        FALSE, FALSE, NoRet)

\* ---------------------------------------------------------------- Swap, assignment
\* Mutant: the storage is swapped, size_ is not.
DoSwapStorageOnly(vc, m, a, b) ==
    IF a # b THEN Res(RawSwap(vc, a, b), m, FALSE, FALSE, NoRet)
    ELSE Res(vc, m, FALSE, FALSE, NoRet)

DoSwap(vc, m, a, b) ==
    IF a # b
    THEN LET vc1 == RawSwap(vc, a, b)
         IN  Res([vc1 EXCEPT ![a].size = vc[b].size, ![b].size = vc[a].size],
                 m, FALSE, FALSE, NoRet)
    ELSE Res(vc, m, FALSE, FALSE, NoRet)

\* Mutant: size_ is copied from the source, which keeps its own.
DoMoveAssignKeepsSourceSize(vc, m, a, b) ==
    LET vc1 == RawMoveAssign(vc, a, b)
    IN  Res([vc1 EXCEPT ![a].size = vc1[b].size], m, FALSE, FALSE, NoRet)

\* Vector::operator=(Vector&&)
DoMoveAssign(vc, m, a, b) ==
    LET vc1 == RawMoveAssign(vc, a, b)
        size == vc1[b].size
        vc2 == [vc1 EXCEPT ![b].size = 0]
    IN  Res([vc2 EXCEPT ![a].size = size], m, FALSE, FALSE, NoRet)

\* The temporary rhs_copy of the copy assignment.
Tmp == 0

\* operator=(const Vector& rhs), rhs.size_ > data_.Capacity(): copy and swap.
DoCopyAssignRealloc(vc, m, a, b, f) ==
    LET c == DoCopyConstruct(vc @@ (Tmp :> EmptyVec), m, Tmp, b, f) IN
    IF c.threw THEN Res(vc, c.mem, TRUE, TRUE, NoRet)
    ELSE
        LET s == DoSwap(c.vec, c.mem, a, Tmp)
            d == DoDestroy(s.vec, s.mem, Tmp)
        IN  Res([v \in Vecs |-> d.vec[v]], d.mem, FALSE, TRUE, NoRet)

\* The loop (*this)[i] = rhs[i] over the first n elements.
RECURSIVE CopyAssignN(_, _, _, _, _)
CopyAssignN(m, sb, db, i, n) ==
    IF n <= 0 THEN m
    ELSE CopyAssignN(Assign(m, db, i, Get(m, sb, i)), sb, db, i + 1, n - 1)

\* Mutant: size_ = rhs.size_ is missing.
DoCopyAssignInPlaceKeepsSize(vc, m, a, b, f) ==
    LET A == vc[a]
        B == vc[b]
        min_size == Min(B.size, A.size)
    IN  IF At(f, 1, min_size)
        THEN Res(vc, CopyAssignN(m, B.buf, A.buf, 0, f[2] - 1), TRUE, FALSE, NoRet)
        ELSE
            LET m1 == CopyAssignN(m, B.buf, A.buf, 0, min_size) IN
            IF B.size < A.size
            THEN Res(vc, DestroyN(m1, A.buf, min_size, A.size - B.size), FALSE, FALSE, NoRet)
            ELSE IF At(f, 2, B.size - A.size) THEN Res(vc, m1, TRUE, FALSE, NoRet)
            ELSE Res(vc, UninitCopyN(m1, B.buf, min_size, B.size - A.size, A.buf, min_size),
                     FALSE, FALSE, NoRet)

\* operator=(const Vector& rhs), rhs.size_ <= data_.Capacity().
DoCopyAssignInPlace(vc, m, a, b, f) ==
    LET A == vc[a]
        B == vc[b]
        min_size == Min(B.size, A.size)
    IN  IF At(f, 1, min_size)
        THEN Res(vc, CopyAssignN(m, B.buf, A.buf, 0, f[2] - 1), TRUE, FALSE, NoRet)
        ELSE
            LET m1 == CopyAssignN(m, B.buf, A.buf, 0, min_size) IN
            IF B.size < A.size
            THEN Res([vc EXCEPT ![a].size = B.size],
                     DestroyN(m1, A.buf, min_size, A.size - B.size), FALSE, FALSE, NoRet)
            ELSE IF At(f, 2, B.size - A.size) THEN Res(vc, m1, TRUE, FALSE, NoRet)
            ELSE Res([vc EXCEPT ![a].size = B.size],
                     UninitCopyN(m1, B.buf, min_size, B.size - A.size, A.buf, min_size),
                     FALSE, FALSE, NoRet)

DoCopyAssign(vc, m, a, b, f) ==
    IF a = b THEN Res(vc, m, FALSE, FALSE, NoRet)
    ELSE IF vc[b].size > vc[a].cap THEN DoCopyAssignRealloc(vc, m, a, b, f)
    ELSE DoCopyAssignInPlace(vc, m, a, b, f)

\* ---------------------------------------------------------------- the program
Traits == [nothrow_move : BOOLEAN, copyable : BOOLEAN]

\* No call is being looked at: the caller is between two calls.
NoCall == [op |-> "none", args |-> <<>>, threw |-> FALSE, realloc |-> FALSE, ret |-> NoRet]

\* Nothing recorded: vals are the values appended, allocs the allocations
\* made, reserved the largest n of a Reserve(n) that returned, head the n of a
\* Reserve(n) that was the first call and the only Reserve (-1: no call yet,
\* -2: otherwise), clean whether no call has thrown, caps the non-zero
\* capacities the array has had, onlyAppends whether every call so far was an
\* append that returned.
NoLog == [vals |-> <<>>, allocs |-> 0, reserved |-> 0, head |-> -1, clean |-> TRUE,
          caps |-> {}, onlyAppends |-> TRUE]

Init ==
    /\ T \in Traits
    /\ vec = [v \in Vecs |-> EmptyVec]
    /\ mem = [blk |-> [b \in Blocks |-> [used |-> FALSE, slots |-> <<>>]],
              bad |-> FALSE, leaked |-> 0, lost |-> 0, leaks |-> 0]
    /\ last = NoCall
    /\ log = NoLog

CanAlloc == FreeBlocks(mem) # {}

\* The blocks still allocated that no array holds: nothing can deallocate them.
Unreachable(vc, m) ==
    {b \in Blocks : m.blk[b].used /\ \A v \in DOMAIN vc : vc[v].buf # b}

\* A block no array holds any more is lost for good: it is counted in lost, its
\* live elements in leaked, and the model forgets its contents.
RECURSIVE Collect(_, _)
Collect(vc, m) ==
    IF Unreachable(vc, m) = {} THEN m
    ELSE LET b == CHOOSE b \in Unreachable(vc, m) : TRUE
         IN  Collect(vc, [m EXCEPT !.blk[b] = [used |-> FALSE, slots |-> <<>>],
                                   !.leaked = @ + LiveIn(m.blk[b].slots),
                                   !.lost = @ + 1])

\* The caller is between two calls.
Idle == last = NoCall

\* The caller makes another call: the model stops calling, destructors apart,
\* once MaxLeaks calls have leaked.
Ready == Idle /\ mem.leaks < MaxLeaks

\* The call op(args), made with fault f, returned (or threw), leaving r.  A
\* fault that names no throwing operation of the call is not a fault of it.
CallCore(op, args, f, res) ==
    /\ Idle
    /\ ~mem.bad
    /\ \E r \in {res} :
        /\ f = NoFault \/ r.threw
        /\ \E m \in {Collect(r.vec, r.mem)} :
            mem' = [m EXCEPT !.leaks = IF <<m.leaked, m.lost>> # <<mem.leaked, mem.lost>>
                                       THEN @ + 1 ELSE @]
        /\ vec' = r.vec
        /\ last' = [op |-> op, args |-> args, threw |-> r.threw, realloc |-> r.realloc,
                    ret |-> r.ret]
    /\ UNCHANGED T

Call(op, args, f, res) == CallCore(op, args, f, res) /\ UNCHANGED log

\* The caller has seen the outcome of the call and goes on.
Return ==
    /\ ~Idle
    /\ last' = NoCall
    /\ UNCHANGED <<T, vec, mem, log>>

Alive(v) == vec[v].alive

\* A growing call on v stays within the bounds L (length) and C (capacity).
CanGrow(v, L, C) ==
    /\ vec[v].size < L
    /\ vec[v].size < vec[v].cap \/ (GrowCapacity(vec[v].size) <= C /\ CanAlloc)

DefaultConstruct(d) ==
    /\ ~Alive(d)
    /\ Call("Vector()", <<d>>, NoFault, DoDefaultConstruct(vec, mem, d))

SizeConstruct(d, n, f) ==
    /\ ~Alive(d)
    /\ n = 0 \/ CanAlloc
    /\ Call("Vector(n)", <<d, n>>, f, DoSizeConstruct(vec, mem, d, n, f))

CopyConstruct(d, s, f) ==
    /\ ~Alive(d) /\ Alive(s) /\ T.copyable
    /\ vec[s].size = 0 \/ CanAlloc
    /\ Call("Vector(const&)", <<d, s>>, f, DoCopyConstruct(vec, mem, d, s, f))

MoveConstructVector(d, s) ==
    /\ ~Alive(d) /\ Alive(s)
    /\ Call("Vector(&&)", <<d, s>>, NoFault, DoMoveConstruct(vec, mem, d, s))

Destroy(v) ==
    /\ Alive(v)
    /\ Call("~Vector", <<v>>, NoFault, DoDestroy(vec, mem, v))

Reserve(v, n, f) ==
    /\ Alive(v)
    /\ n <= vec[v].cap \/ CanAlloc
    /\ Call("Reserve", <<v, n>>, f, DoReserve(T, vec, mem, v, n, f))

Resize(v, n, f) ==
    /\ Alive(v)
    /\ n <= vec[v].cap \/ CanAlloc
    /\ Call("Resize", <<v, n>>, f, DoResize(T, vec, mem, v, n, f))

PushBackCopy(v, x, f, L, C) ==
    /\ Alive(v) /\ T.copyable /\ CanGrow(v, L, C)
    /\ Call("PushBack(const&)", <<v, x>>, f, DoPushBackCopy(T, vec, mem, v, x, f))

PushBackMove(v, x, f, L, C) ==
    /\ Alive(v) /\ CanGrow(v, L, C)
    /\ Call("PushBack(&&)", <<v, x>>, f, DoPushBackMove(T, vec, mem, v, x, f))

EmplaceBack(v, x, f, L, C) ==
    /\ Alive(v) /\ CanGrow(v, L, C)
    /\ Call("EmplaceBack", <<v, x>>, f, DoEmplaceBack(T, vec, mem, v, x, f))

PopBack(v) ==
    /\ Alive(v) /\ vec[v].size > 0
    /\ Call("PopBack", <<v>>, NoFault, DoPopBack(vec, mem, v))

Emplace(v, pos, x, f, L, C) ==
    /\ Alive(v) /\ CanGrow(v, L, C)
    /\ pos <= vec[v].size
    /\ Call("Emplace", <<v, pos, x>>, f, DoEmplace(T, vec, mem, v, pos, x, f))

PushBackRef(v, i, f, L, C) ==
    /\ Alive(v) /\ T.copyable /\ CanGrow(v, L, C)
    /\ i < vec[v].size
    /\ Call("PushBack(v[i])", <<v, i>>, f, DoPushBackRef(T, vec, mem, v, i, f))

InsertRef(v, pos, i, f, L, C) ==
    /\ Alive(v) /\ T.copyable /\ CanGrow(v, L, C)
    /\ pos <= vec[v].size /\ i < vec[v].size
    /\ Call("Insert(pos, v[i])", <<v, pos, i>>, f, DoInsertRef(T, vec, mem, v, pos, i, f))

Erase(v, pos, f) ==
    /\ Alive(v)
    /\ pos < vec[v].size
    /\ Call("Erase", <<v, pos>>, f, DoErase(vec, mem, v, pos, f))

Swap(a, b) ==
    /\ Alive(a) /\ Alive(b)
    /\ Call("Swap", <<a, b>>, NoFault, DoSwap(vec, mem, a, b))

CopyAssign(a, b, f) ==
    /\ Alive(a) /\ Alive(b) /\ T.copyable
    /\ vec[b].size <= vec[a].cap \/ CanAlloc
    /\ Call("operator=(const&)", <<a, b>>, f, DoCopyAssign(vec, mem, a, b, f))

MoveAssignVector(a, b) ==
    /\ Alive(a) /\ Alive(b)
    /\ Call("operator=(&&)", <<a, b>>, NoFault, DoMoveAssign(vec, mem, a, b))

\* The calls on one array, of the arrays VS, within the bounds L and C; th
\* tells whether the element operations may throw.
OneArray(VS, L, C, th) ==
    \/ Ready /\ \E d \in VS : DefaultConstruct(d)
    \/ Ready /\ \E d \in VS, n \in 0..L : \E f \in Faults(th, 1, n) : SizeConstruct(d, n, f)
    \/ Idle /\ \E v \in VS : Destroy(v)
    \/ Ready /\ \E v \in VS, n \in 0..C : \E f \in Faults(th, 1, vec[v].size) : Reserve(v, n, f)
    \/ Ready /\ \E v \in VS, n \in 0..L : \E f \in Faults(th, 2, Max(vec[v].size, n)) : Resize(v, n, f)
    \/ Ready /\ \E v \in VS, x \in Values : \E f \in Faults(th, 2, vec[v].size) : PushBackCopy(v, x, f, L, C)
    \/ Ready /\ \E v \in VS, x \in Values : \E f \in Faults(th, 2, vec[v].size) : PushBackMove(v, x, f, L, C)
    \/ Ready /\ \E v \in VS, x \in Values : \E f \in Faults(th, 2, vec[v].size) : EmplaceBack(v, x, f, L, C)
    \/ Ready /\ \E v \in VS : PopBack(v)
    \/ Ready /\ \E v \in VS, x \in Values : \E pos \in 0..vec[v].size, f \in Faults(th, 4, vec[v].size) :
            Emplace(v, pos, x, f, L, C)
    \/ Ready /\ \E v \in VS : \E pos \in 0..vec[v].size, f \in Faults(th, 1, vec[v].size) : Erase(v, pos, f)
    \/ Ready /\ \E v \in VS : \E i \in 0..vec[v].size, f \in Faults(th, 2, vec[v].size) :
            PushBackRef(v, i, f, L, C)
    \/ Ready /\ \E v \in VS : \E pos, i \in 0..vec[v].size, f \in Faults(th, 4, vec[v].size) :
            InsertRef(v, pos, i, f, L, C)

\* The calls that take two arrays (the same array twice included).
TwoArrays(VS, th) ==
    \/ Ready /\ \E d, s \in VS : \E f \in Faults(th, 1, vec[s].size) : CopyConstruct(d, s, f)
    \/ Ready /\ \E d, s \in VS : MoveConstructVector(d, s)
    \/ Ready /\ \E a, b \in VS : Swap(a, b)
    \/ Ready /\ \E a, b \in VS : \E f \in Faults(th, 2, vec[b].size) : CopyAssign(a, b, f)
    \/ Ready /\ \E a, b \in VS : MoveAssignVector(a, b)

\* Two arrays, every call.
Next == OneArray(Vecs, MaxLen2, MaxCap2, TRUE) \/ TwoArrays(Vecs, TRUE) \/ Return

Spec == Init /\ [][Next]_vars

\* Two arrays, every call, of an element type whose operations never throw.
NextQuiet == OneArray(Vecs, MaxLen2, MaxCap2, FALSE) \/ TwoArrays(Vecs, FALSE) \/ Return

SpecQuiet == Init /\ [][NextQuiet]_vars

\* One array, larger.
NextOne == OneArray({1}, MaxLen, MaxCap, TRUE) \/ Return

SpecOne == Init /\ [][NextOne]_vars

\* ---------------------------------------------------------------- one array, appended to
\* A default-constructed array that is reserved and appended to, every call
\* recorded in log.
InitAppend ==
    /\ T \in Traits
    /\ vec = [v \in Vecs |-> IF v = 1 THEN FreshVec ELSE EmptyVec]
    /\ mem = [blk |-> [b \in Blocks |-> [used |-> FALSE, slots |-> <<>>]],
              bad |-> FALSE, leaked |-> 0, lost |-> 0, leaks |-> 0]
    /\ last = NoCall
    /\ log = NoLog

AppendOps == {"PushBack(const&)", "PushBack(&&)", "EmplaceBack"}

\* The call last' is recorded.
Record ==
    LET c == last'
        reserve == c.op = "Reserve"
    IN  log' = [vals |-> IF c.op \in AppendOps /\ ~c.threw
                         THEN Append(log.vals, c.args[2]) ELSE log.vals,
                allocs |-> IF c.realloc THEN log.allocs + 1 ELSE log.allocs,
                reserved |-> IF reserve /\ ~c.threw THEN Max(log.reserved, c.args[2])
                             ELSE log.reserved,
                head |-> IF log.head = -1 /\ reserve /\ ~c.threw THEN c.args[2]
                         ELSE IF log.head = -1 \/ reserve THEN -2
                         ELSE log.head,
                clean |-> log.clean /\ ~c.threw,
                caps |-> log.caps \cup ({vec'[1].cap} \ {0}),
                onlyAppends |-> log.onlyAppends /\ c.op \in AppendOps /\ ~c.threw]

Counting == Ready /\ log.allocs < MaxAllocs

NextAppend ==
    \/ Counting /\ \E n \in 0..MaxCap : \E f \in Faults(TRUE, 1, vec[1].size) :
            /\ Alive(1)
            /\ n <= vec[1].cap \/ CanAlloc
            /\ CallCore("Reserve", <<1, n>>, f, DoReserve(T, vec, mem, 1, n, f))
            /\ Record
    \/ Counting /\ \E x \in Values : \E f \in Faults(TRUE, 2, vec[1].size) :
            /\ Alive(1) /\ T.copyable /\ CanGrow(1, MaxCap, MaxCap)
            /\ CallCore("PushBack(const&)", <<1, x>>, f, DoPushBackCopy(T, vec, mem, 1, x, f))
            /\ Record
    \/ Counting /\ \E x \in Values : \E f \in Faults(TRUE, 2, vec[1].size) :
            /\ Alive(1) /\ CanGrow(1, MaxCap, MaxCap)
            /\ CallCore("PushBack(&&)", <<1, x>>, f, DoPushBackMove(T, vec, mem, 1, x, f))
            /\ Record
    \/ Counting /\ \E x \in Values : \E f \in Faults(TRUE, 2, vec[1].size) :
            /\ Alive(1) /\ CanGrow(1, MaxCap, MaxCap)
            /\ CallCore("EmplaceBack", <<1, x>>, f, DoEmplaceBack(T, vec, mem, 1, x, f))
            /\ Record
    \/ Return

SpecAppend == InitAppend /\ [][NextAppend]_vars

\* ---------------------------------------------------------------- one array that grows
\* A default-constructed array that is reserved (to 0 or to MaxLen, a capacity
\* that is not a power of two), appended to and inserted into, until it has
\* grown from a full capacity that is not a power of two.
NextGrow ==
    \/ Counting /\ \E n \in {0, MaxLen} : \E f \in Faults(TRUE, 1, vec[1].size) :
            /\ Alive(1)
            /\ n <= vec[1].cap \/ CanAlloc
            /\ CallCore("Reserve", <<1, n>>, f, DoReserve(T, vec, mem, 1, n, f))
            /\ Record
    \/ Counting /\ \E x \in Values : \E f \in Faults(TRUE, 2, vec[1].size) :
            /\ Alive(1) /\ T.copyable /\ CanGrow(1, MaxGrowLen, MaxGrowCap)
            /\ CallCore("PushBack(const&)", <<1, x>>, f, DoPushBackCopy(T, vec, mem, 1, x, f))
            /\ Record
    \/ Counting /\ \E x \in Values : \E f \in Faults(TRUE, 2, vec[1].size) :
            /\ Alive(1) /\ CanGrow(1, MaxGrowLen, MaxGrowCap)
            /\ CallCore("PushBack(&&)", <<1, x>>, f, DoPushBackMove(T, vec, mem, 1, x, f))
            /\ Record
    \/ Counting /\ \E x \in Values : \E f \in Faults(TRUE, 2, vec[1].size) :
            /\ Alive(1) /\ CanGrow(1, MaxGrowLen, MaxGrowCap)
            /\ CallCore("EmplaceBack", <<1, x>>, f, DoEmplaceBack(T, vec, mem, 1, x, f))
            /\ Record
    \/ Counting /\ \E x \in Values : \E pos \in 0..vec[1].size, f \in Faults(TRUE, 4, vec[1].size) :
            /\ Alive(1) /\ CanGrow(1, MaxGrowLen, MaxGrowCap)
            /\ CallCore("Emplace", <<1, pos, x>>, f, DoEmplace(T, vec, mem, 1, pos, x, f))
            /\ Record
    \/ Return

SpecGrow == InitAppend /\ [][NextGrow]_vars

\* ---------------------------------------------------------------- observations
\* The element sequence of array v: the values at indices [0, size).
Contents(vc, m, v) == [i \in 1..vc[v].size |-> Get(m, vc[v].buf, i - 1)]

RECURSIVE LiveInBlocks(_, _)
LiveInBlocks(m, S) ==
    IF S = {} THEN 0
    ELSE LET b == CHOOSE b \in S : TRUE
         IN  LiveIn(m.blk[b].slots) + LiveInBlocks(m, S \ {b})

\* The element objects constructed and not destroyed.
LiveObjects(m) == m.leaked + LiveInBlocks(m, Blocks)

\* The blocks allocated and not deallocated.
AllocatedBlocks(m) == m.lost + Cardinality({b \in Blocks : m.blk[b].used})

\* Slots [0, size) of v each hold a live element, slots [size, cap) hold none.
SlotsLive(vc, m, v) ==
    \A i \in 0..(vc[v].cap - 1) : IsLive(Get(m, vc[v].buf, i)) <=> i < vc[v].size

\* The calls that grow an array and may reallocate.
GrowthOps == {"Reserve", "PushBack(const&)", "PushBack(&&)", "EmplaceBack", "Emplace"}

\* ---------------------------------------------------------------- claims
\* C1: once every array has been destroyed, every block that was allocated
\* has been deallocated and every element that was constructed has been
\* destroyed, exactly once each: nothing is leaked, nothing is freed or
\* destroyed twice.
C1_EverythingReleasedOnce ==
    (\A v \in Vecs : ~vec[v].alive) =>
        (AllocatedBlocks(mem) = 0 /\ LiveObjects(mem) = 0 /\ ~mem.bad)

\* C2: when an element constructor throws in a reallocating growth call
\* (Reserve, PushBack, EmplaceBack, Emplace/Insert) on an element type that is
\* nothrow-move-constructible or copy-constructible, the array's element
\* sequence, length, capacity and storage are what they were before the call.
C2_GrowthThrowLeavesArray ==
    [][(/\ last'.threw /\ last'.realloc /\ last'.op \in GrowthOps
        /\ (T.nothrow_move \/ T.copyable))
       => (/\ vec' = vec
           /\ \A v \in Vecs : Contents(vec', mem', v) = Contents(vec, mem, v))]_vars

\* C2 witness: an insertion in the middle of a two-element array reallocated,
\* threw while copying, and the array still holds its two elements.
C2_Witness ==
    /\ last.op = "Emplace" /\ last.threw /\ last.realloc
    /\ T.copyable /\ ~T.nothrow_move
    /\ vec[1].size = 2 /\ last.args[2] = 1
    /\ Contents(vec, mem, 1) = <<1, 2>>

\* C3: when an element constructor throws in a reallocating growth call, the
\* number of allocated blocks and the number of live element objects are what
\* they were before the call.
C3_GrowthThrowLeaksNothing ==
    [][(last'.threw /\ last'.realloc /\ last'.op \in GrowthOps)
       => (/\ AllocatedBlocks(mem') = AllocatedBlocks(mem)
           /\ LiveObjects(mem') = LiveObjects(mem))]_vars

\* C4: between calls, a call that threw included, slots [0, length) of every
\* array hold a live element each and slots [length, capacity) hold none.
C4_SlotsLiveBetweenCalls ==
    \A v \in Vecs : vec[v].alive => SlotsLive(vec, mem, v)

\* C5: 0 <= length <= capacity for every array, moved-from and swapped
\* arrays included.
C5_LengthWithinCapacity ==
    \A v \in Vecs : 0 <= vec[v].size /\ vec[v].size <= vec[v].cap

\* C5 witness: a move assignment has left its source empty and given its
\* target the elements.
C5_Witness ==
    /\ last.op = "operator=(&&)" /\ last.args[1] # last.args[2]
    /\ vec[last.args[1]].size = 2
    /\ vec[last.args[2]].size = 0 /\ vec[last.args[2]].cap = 0

\* C6: on an array that started empty, the length is the number of appends
\* that returned and the element at index i-1 is the value of the i-th of
\* them, across every reallocation (also after appends that threw, for an
\* element type that is nothrow-move-constructible or copy-constructible);
\* EmplaceBack returns a reference to the element at index length-1.
C6_AppendsInOrder ==
    /\ vec[1].size = Len(log.vals)
    /\ (log.clean \/ T.nothrow_move \/ T.copyable) => Contents(vec, mem, 1) = log.vals
    /\ (last.op = "EmplaceBack" /\ ~last.threw) =>
            /\ last.ret = <<vec[1].buf, vec[1].size - 1>>
            /\ Get(mem, last.ret[1], last.ret[2]) = last.args[2]

\* C6 witness: three appends have returned, each after a reallocation, the
\* last an EmplaceBack.
C6_Witness ==
    /\ last.op = "EmplaceBack" /\ ~last.threw /\ last.realloc
    /\ log.vals = <<2, 1, 2>> /\ log.allocs = 3 /\ log.clean
    /\ vec[1].cap = 4 /\ Contents(vec, mem, 1) = <<2, 1, 2>>

\* An append on an array shorter than the n of a Reserve(n) that returned
\* allocates nothing and leaves the storage block and the capacity alone.
AppendWithinReserved ==
    (last'.op \in AppendOps /\ vec[1].size < log.reserved) =>
        (~last'.realloc /\ vec'[1].buf = vec[1].buf /\ vec'[1].cap = vec[1].cap)

\* C7, as stated: after Reserve(n) no append reallocates while the length is
\* below n, and Reserve(n) on an empty array followed by up to n appends, none
\* of which threw, makes exactly one allocation in total.
C7_ReserveThenAppends ==
    [][/\ AppendWithinReserved
       /\ (log'.clean /\ log'.head >= 0 /\ Len(log'.vals) <= log'.head)
            => log'.allocs = 1]_vars

\* C7, amended: the same, the one allocation for n >= 1; Reserve(0) on an
\* empty array allocates nothing.
C7_ReserveThenAppendsFromOne ==
    [][/\ AppendWithinReserved
       /\ (log'.clean /\ log'.head >= 1 /\ Len(log'.vals) <= log'.head)
            => log'.allocs = 1
       /\ (log'.clean /\ log'.head = 0 /\ Len(log'.vals) = 0)
            => log'.allocs = 0]_vars

\* C7 witness: Reserve(3) on the empty array, then three appends, one
\* allocation.
C7_Witness ==
    /\ last.op \in AppendOps /\ ~last.threw
    /\ log.head = 3 /\ Len(log.vals) = 3 /\ log.allocs = 1
    /\ vec[1].cap = 3 /\ vec[1].size = 3

\* C8: a copy assignment from a source longer than the target's capacity that
\* throws leaves the target (elements, length, capacity, block) and the source
\* as they were, and nothing of the temporary copy alive.
C8_CopyAssignReallocThrow ==
    [][(last'.op = "operator=(const&)" /\ last'.threw /\ last'.realloc)
       => (/\ vec' = vec
           /\ mem'.blk = mem.blk
           /\ AllocatedBlocks(mem') = AllocatedBlocks(mem)
           /\ LiveObjects(mem') = LiveObjects(mem)
           /\ ~mem'.bad)]_vars

\* C8 witness: the assignment threw on the reallocating path with a target
\* that holds an element.
C8_Witness ==
    /\ last.op = "operator=(const&)" /\ last.threw /\ last.realloc
    /\ vec[last.args[1]].size = 1 /\ vec[last.args[2]].size = 2

\* C9: a copy assignment on the in-place path that throws leaves the target
\* with its length equal to the number of live elements of its storage, in
\* slots [0, length); leaks and double-destroys nothing; leaves the source
\* unchanged; only the target's element values may differ.
C9_CopyAssignInPlaceThrow ==
    [][(last'.op = "operator=(const&)" /\ last'.threw /\ ~last'.realloc)
       => LET a == last'.args[1]
              b == last'.args[2]
          IN  /\ SlotsLive(vec', mem', a)
              /\ LiveIn(mem'.blk[vec'[a].buf].slots) = vec'[a].size
              /\ vec' = vec
              /\ Contents(vec', mem', b) = Contents(vec, mem, b)
              /\ AllocatedBlocks(mem') = AllocatedBlocks(mem)
              /\ LiveObjects(mem') = LiveObjects(mem)
              /\ ~mem'.bad]_vars

\* Insert(begin() + p, x) then Erase(begin() + p) on array v, without a fault.
RoundTrip(v, p, x) ==
    LET r == DoEmplace(T, vec, mem, v, p, x, NoFault)
    IN  DoErase(r.vec, r.mem, v, p, NoFault)

\* Array v can take one more element within the heap of the model.
CanInsert(v) == vec[v].alive /\ (vec[v].size < vec[v].cap \/ CanAlloc)

\* C10: Insert at p followed by Erase at p restores the element sequence and
\* the length, on both insertion paths, and Erase returns the position p.
C10_InsertEraseRoundTrip ==
    \A v \in Vecs : \A p \in 0..vec[v].size, x \in Values :
        (Idle /\ ~mem.bad /\ CanInsert(v)) =>
            LET r == RoundTrip(v, p, x)
            IN  /\ Contents(r.vec, r.mem, v) = Contents(vec, mem, v)
                /\ r.vec[v].size = vec[v].size
                /\ r.ret = <<r.vec[v].buf, p>>

\* C10 witness: the round trip in the middle of a full two-element array
\* reallocates and gives back the two elements.
C10_Witness ==
    /\ Idle /\ vec[1].alive /\ vec[1].size = 2 /\ vec[1].cap = 2
    /\ Contents(vec, mem, 1) = <<1, 2>>
    /\ DoEmplace(T, vec, mem, 1, 1, 2, NoFault).realloc
    /\ Contents(RoundTrip(1, 1, 2).vec, RoundTrip(1, 1, 2).mem, 1) = <<1, 2>>
    /\ RoundTrip(1, 1, 2).vec[1].cap = 4

\* C11: move construction of B from A, and move assignment of A into another
\* array B, give B the element sequence, length, capacity and storage block A
\* had and leave A with length 0, capacity 0 and no block; no element is
\* constructed, copied, moved or destroyed by it.
C11_MoveTransfersStorage ==
    [][(last'.op \in {"Vector(&&)", "operator=(&&)"} /\ last'.args[1] # last'.args[2])
       => LET B == last'.args[1]
              A == last'.args[2]
          IN  /\ vec'[B] = [vec[A] EXCEPT !.alive = TRUE]
              /\ Contents(vec', mem', B) = Contents(vec, mem, A)
              /\ vec'[A] = FreshVec
              /\ vec[A].buf # Null => mem'.blk[vec[A].buf] = mem.blk[vec[A].buf]
              /\ LiveObjects(mem') = LiveObjects(mem)
              /\ ~last'.threw /\ ~mem'.bad]_vars

\* C11 witness: a two-element array has been move-assigned into an array that
\* held a block of its own.
C11_Witness ==
    /\ last.op = "operator=(&&)" /\ last.args[1] # last.args[2]
    /\ Contents(vec, mem, last.args[1]) = <<1, 2>>
    /\ vec[last.args[2]] = FreshVec
    /\ mem.lost = 1

\* The sequence s with x inserted before index i (0-based).
InsertAt(s, i, x) == SubSeq(s, 1, i) \o <<x>> \o SubSeq(s, i + 1, Len(s))

\* The sequence s without the element at index i (0-based).
RemoveAt(s, i) == SubSeq(s, 1, i) \o SubSeq(s, i + 2, Len(s))

\* C12: on an array holding s, an Emplace/Insert at index i of x that returns
\* leaves s[0..i) ++ [x] ++ s[i..length) and returns position i; an Erase at
\* index i leaves s[0..i) ++ s[i+1..length) and returns position i; a PopBack
\* leaves s[0..length-1); each changes the length by exactly one, on the
\* in-capacity and the reallocating path.
C12_InsertErasePopResults ==
    [][~last'.threw =>
        LET v == last'.args[1]
            s == Contents(vec, mem, v)
            s1 == Contents(vec', mem', v)
        IN  /\ last'.op = "Emplace" =>
                /\ s1 = InsertAt(s, last'.args[2], last'.args[3])
                /\ vec'[v].size = vec[v].size + 1
                /\ last'.ret = <<vec'[v].buf, last'.args[2]>>
            /\ last'.op = "Erase" =>
                /\ s1 = RemoveAt(s, last'.args[2])
                /\ vec'[v].size = vec[v].size - 1
                /\ last'.ret = <<vec'[v].buf, last'.args[2]>>
            /\ last'.op = "PopBack" =>
                /\ s1 = SubSeq(s, 1, Len(s) - 1)
                /\ vec'[v].size = vec[v].size - 1]_vars

\* C12 witness: an Emplace at index 1 on the in-capacity path has shifted one
\* element up.
C12_Witness ==
    /\ last.op = "Emplace" /\ ~last.threw /\ ~last.realloc /\ last.args[2] = 1
    /\ Contents(vec, mem, 1) = <<1, 2, 1>>

\* C13: when an element construction throws in Vector(n) or in the copy
\* constructor, the elements constructed so far are destroyed and the new
\* block is deallocated: no array, block or live element of the failed
\* construction exists afterwards and every other array is unchanged.
C13_ConstructorThrowCleansUp ==
    [][(last'.op \in {"Vector(n)", "Vector(const&)"} /\ last'.threw)
       => (/\ ~vec'[last'.args[1]].alive
           /\ vec' = vec
           /\ mem'.blk = mem.blk
           /\ AllocatedBlocks(mem') = AllocatedBlocks(mem)
           /\ LiveObjects(mem') = LiveObjects(mem)
           /\ ~mem'.bad)]_vars

\* C13 witness: Vector(2) threw while the other array holds two elements.
C13_Witness ==
    /\ last.op = "Vector(n)" /\ last.threw /\ last.args[2] = 2
    /\ ~vec[last.args[1]].alive
    /\ \E s \in Vecs : vec[s].alive /\ vec[s].size = 2

\* C14: no two distinct arrays hold the same non-null storage block, whatever
\* the copies, moves (self-move-assignment included) and swaps (self-swap
\* included) made among them.
C14_NoSharedBlock ==
    \A a, b \in Vecs :
        (a # b /\ vec[a].alive /\ vec[b].alive /\ vec[a].buf # Null)
            => vec[a].buf # vec[b].buf

\* C14 witness: two arrays that both hold a block have been swapped.
C14_Witness ==
    /\ last.op = "Swap" /\ last.args[1] # last.args[2]
    /\ \A v \in Vecs : vec[v].alive /\ vec[v].buf # Null
    /\ vec[1].size # vec[2].size

\* C15: a copy assignment target = source that returns leaves the target with
\* the source's element sequence and length and the source unchanged; a
\* self-assignment changes nothing; with source.length <= target.capacity no
\* block is allocated and the target keeps its block and capacity, otherwise
\* the target's capacity becomes source.length.
C15_CopyAssignResult ==
    [][(last'.op = "operator=(const&)" /\ ~last'.threw)
       => LET a == last'.args[1]
              b == last'.args[2]
          IN  /\ Contents(vec', mem', a) = Contents(vec, mem, b)
              /\ vec'[a].size = vec[b].size
              /\ Contents(vec', mem', b) = Contents(vec, mem, b)
              /\ a # b => vec'[b] = vec[b]
              /\ a = b => (vec' = vec /\ mem' = mem)
              /\ vec[b].size <= vec[a].cap =>
                    /\ ~last'.realloc
                    /\ AllocatedBlocks(mem') = AllocatedBlocks(mem)
                    /\ vec'[a].buf = vec[a].buf /\ vec'[a].cap = vec[a].cap
              /\ vec[b].size > vec[a].cap =>
                    /\ last'.realloc
                    /\ vec'[a].cap = vec[b].size]_vars

\* C15 witness: the assignment reallocated a target that held a block and gave
\* it the source's two elements in a block of capacity 2.
C15_Witness ==
    /\ last.op = "operator=(const&)" /\ ~last.threw /\ last.realloc
    /\ last.args[1] # last.args[2]
    /\ Contents(vec, mem, last.args[1]) = <<2, 1>>
    /\ Contents(vec, mem, last.args[2]) = <<2, 1>>
    /\ vec[last.args[1]].cap = 2
    /\ vec[last.args[1]].buf = 3

\* The smallest power of two that is at least k.
SmallestPowerOfTwo(k) ==
    CHOOSE c \in {2 ^ i : i \in 0..k} : c >= k /\ \A d \in {2 ^ i : i \in 0..k} : d >= k => c <= d

\* C16: PushBack, EmplaceBack and Emplace/Insert called at length == capacity
\* allocate exactly one new block, of capacity 1 for an empty array and
\* 2 * length otherwise; after k >= 1 appends to a default-constructed array
\* the capacity is the smallest power of two >= k and the allocations made are
\* as many as the distinct capacities taken.
C16_GrowthDoubles ==
    [][/\ (last'.op \in AppendOps \cup {"Emplace"} /\ vec[1].size = vec[1].cap) =>
            /\ last'.realloc
            /\ log'.allocs = log.allocs + 1
            /\ ~last'.threw =>
                /\ vec'[1].cap = (IF vec[1].size = 0 THEN 1 ELSE 2 * vec[1].size)
                /\ vec'[1].buf # Null /\ vec'[1].buf # vec[1].buf
                /\ ~mem.blk[vec'[1].buf].used
                /\ Len(mem'.blk[vec'[1].buf].slots) = vec'[1].cap
       /\ (log'.onlyAppends /\ Len(log'.vals) >= 1) =>
            /\ vec'[1].cap = SmallestPowerOfTwo(Len(log'.vals))
            /\ log'.allocs = Cardinality(log'.caps)]_vars

\* C16 witness: an insertion into an array of length 3 and capacity 3 has
\* reallocated to capacity 6.
C16_Witness ==
    /\ last.op = "Emplace" /\ ~last.threw /\ last.realloc /\ last.args[2] = 1
    /\ vec[1].size = 4 /\ vec[1].cap = 6
    /\ log.caps = {3, 6}

\* C17: Reserve(n) with n <= capacity changes nothing; Reserve(n) with
\* n > capacity that returns makes one allocation, makes the capacity n, keeps
\* the element sequence and the length, destroys every element of the old
\* block and deallocates the old block.
C17_ReserveFrame ==
    [][last'.op = "Reserve" =>
        LET v == last'.args[1]
            n == last'.args[2]
            old == vec[v].buf
        IN  /\ n <= vec[v].cap =>
                (vec' = vec /\ mem' = mem /\ ~last'.realloc /\ ~last'.threw)
            /\ n > vec[v].cap => last'.realloc
            /\ (n > vec[v].cap /\ ~last'.threw) =>
                /\ vec'[v].cap = n /\ vec'[v].size = vec[v].size
                /\ Contents(vec', mem', v) = Contents(vec, mem, v)
                /\ vec'[v].buf # Null /\ vec'[v].buf # old /\ ~mem.blk[vec'[v].buf].used
                /\ Len(mem'.blk[vec'[v].buf].slots) = n
                /\ old # Null => ~mem'.blk[old].used
                /\ AllocatedBlocks(mem') = AllocatedBlocks(mem) + (IF old = Null THEN 1 ELSE 0)
                /\ mem'.leaked = mem.leaked /\ mem'.lost = mem.lost
                /\ LiveObjects(mem') = LiveObjects(mem)
                /\ ~mem'.bad]_vars

SourcesMoved(m, v, n) ==
    \A i \in 0..(vec[v].size - 1) :
        Get(m, vec[v].buf, i) = IF i < n THEN Moved ELSE Get(mem, vec[v].buf, i)

\* What a reallocating call on v leaves when the relocation of the element
\* after the first n throws: a type whose move cannot throw has nothing that
\* throws there; a copyable type was copied, its elements are untouched; a
\* type that can only be moved has its first n elements moved from.
RelocationThrew(r, v, n) ==
    IF T.nothrow_move THEN ~r.threw
    ELSE /\ r.threw /\ r.realloc /\ r.vec = vec
         /\ SourcesMoved(r.mem, v, IF T.copyable THEN 0 ELSE n)

\* The relocation of all elements of v into a new block of capacity n gives
\* the block their values, by move exactly when the type's move cannot throw
\* or the type cannot be copied.
RelocatedBy(v, n) ==
    LET nb == Allocate(mem, n)
        m2 == Relocate(T, Allocated(mem, nb, n), vec[v].buf, 0, vec[v].size, nb, 0)
    IN  /\ \A i \in 0..(vec[v].size - 1) : Get(m2, nb, i) = Get(mem, vec[v].buf, i)
        /\ SourcesMoved(m2, v, IF T.nothrow_move \/ ~T.copyable THEN vec[v].size ELSE 0)

\* C19: at every reallocating growth site (Reserve, PushBack, EmplaceBack,
\* Emplace/Insert) the elements are relocated by move construction if and only
\* if the type's move cannot throw or the type cannot be copied, and by copy
\* construction otherwise: a copyable type with a throwing move is never moved
\* from by a reallocating call.
C19_MoveIffSafe ==
    \A v \in Vecs :
        (Idle /\ ~mem.bad /\ vec[v].alive /\ vec[v].size >= 1 /\ CanAlloc) =>
            /\ RelocatedBy(v, vec[v].cap + 1)
            /\ \A k \in 1..vec[v].size, x \in Values :
                /\ RelocationThrew(DoReserve(T, vec, mem, v, vec[v].cap + 1, <<1, k>>), v, k - 1)
                /\ vec[v].size = vec[v].cap =>
                    /\ T.copyable =>
                        RelocationThrew(DoPushBackCopy(T, vec, mem, v, x, <<2, k>>), v, k - 1)
                    /\ RelocationThrew(DoPushBackMove(T, vec, mem, v, x, <<2, k>>), v, k - 1)
                    /\ RelocationThrew(DoEmplaceBack(T, vec, mem, v, x, <<2, k>>), v, k - 1)
                    /\ \A pos \in 0..(vec[v].size - 1) :
                        /\ k <= pos =>
                            RelocationThrew(DoEmplace(T, vec, mem, v, pos, x, <<2, k>>), v, k - 1)
                        /\ k <= vec[v].size - pos =>
                            RelocationThrew(DoEmplace(T, vec, mem, v, pos, x, <<3, k>>),
                                            v, pos + k - 1)

\* C19 witness: on a type that can only be moved, and whose move may throw, an
\* insertion that reallocated threw after it had moved the first element.
C19_Witness ==
    /\ last.op = "Emplace" /\ last.threw /\ last.realloc
    /\ ~T.copyable /\ ~T.nothrow_move
    /\ vec[1].size = 2 /\ vec[1].cap = 2
    /\ Contents(vec, mem, 1) = <<Moved, 2>>

====
